---------------------------- MODULE Spec2Model ----------------------------
(***************************************************************************)
(* Model of the `updates` crate (src/src/core.rs): the version key         *)
(* (parse_version / standard_release), the registry selection (crates_io)  *)
(* and the time-bounded, file-backed result cache of UpdateChecker.        *)
(*                                                                         *)
(* A Rust String is modelled as a sequence of one-character strings, so    *)
(* that the regex scan, the padding and the byte-wise comparison of        *)
(* parse_version are computed as the code computes them.                   *)
(***************************************************************************)
EXTENDS Integers, Sequences, FiniteSets, TLC

(***************************************************************************)
(* Characters.  Only the relative order of the byte values matters for     *)
(* String comparison; Ascii lists the characters used in increasing byte   *)
(* order ('*' 42, '+' 43, '-' 45, '.' 46, '0'..'9', '@' 64, 'A'..'Z',      *)
(* '_' 95, 'a'..'z').                                                      *)
(***************************************************************************)
Ascii ==
    << "*", "+", "-", ".",
       "0", "1", "2", "3", "4", "5", "6", "7", "8", "9",
       "@",
       "A", "B", "C", "D", "E", "F", "G", "H", "I", "J", "K", "L", "M",
       "N", "O", "P", "Q", "R", "S", "T", "U", "V", "W", "X", "Y", "Z",
       "_",
       "a", "b", "c", "d", "e", "f", "g", "h", "i", "j", "k", "l", "m",
       "n", "o", "p", "q", "r", "s", "t", "u", "v", "w", "x", "y", "z" >>

Chars == { Ascii[i] : i \in 1..Len(Ascii) }

Ord == [ c \in Chars |-> CHOOSE i \in 1..Len(Ascii) : Ascii[i] = c ]

Digits == { "0", "1", "2", "3", "4", "5", "6", "7", "8", "9" }

UpperLetters == { c \in Chars : Ord[c] >= Ord["A"] /\ Ord[c] <= Ord["Z"] }

LowerLetters == { c \in Chars : Ord[c] >= Ord["a"] /\ Ord[c] <= Ord["z"] }

\* char::is_ascii_digit
is_ascii_digit(c) == c \in Digits

\* char lower-casing of str::to_lowercase, on ASCII
lower_char(c) ==
    IF c \in UpperLetters THEN Ascii[Ord[c] - Ord["A"] + Ord["a"]] ELSE c

\* mutant: the case is kept
to_lowercase_kept(s) == s

\* str::to_lowercase
to_lowercase(s) == [ i \in 1..Len(s) |-> lower_char(s[i]) ]

(***************************************************************************)
(* Ord for String (byte-wise lexicographic, a proper prefix is smaller)    *)
(* and for Vec<String> (element-wise lexicographic with the same rule).    *)
(***************************************************************************)
RECURSIVE StrLessFrom(_, _, _)
StrLessFrom(a, b, i) ==
    IF i > Len(b) THEN FALSE
    ELSE IF i > Len(a) THEN TRUE
    ELSE IF a[i] # b[i] THEN Ord[a[i]] < Ord[b[i]]
    ELSE StrLessFrom(a, b, i + 1)

StrLess(a, b) == StrLessFrom(a, b, 1)

RECURSIVE VecLessFrom(_, _, _)
VecLessFrom(a, b, i) ==
    IF i > Len(b) THEN FALSE
    ELSE IF i > Len(a) THEN TRUE
    ELSE IF a[i] # b[i] THEN StrLess(a[i], b[i])
    ELSE VecLessFrom(a, b, i + 1)

VecLess(a, b) == VecLessFrom(a, b, 1)

VecLeq(a, b) == a = b \/ VecLess(a, b)

(***************************************************************************)
(* parse_version                                                           *)
(***************************************************************************)
\* width of format!("{:0>8}", ..)
PadWidth == 8

\* End of the maximal run of characters of class cls that starts at s[i].
RECURSIVE RunEnd(_, _, _)
RunEnd(s, i, cls) ==
    IF i < Len(s) /\ s[i + 1] \in cls THEN RunEnd(s, i + 1, cls) ELSE i

\* component_re.find_iter: the successive leftmost matches of
\* (\d+|[a-z]+|\.|-) from position i on; other characters are skipped.
RECURSIVE find_iter(_, _)
find_iter(s, i) ==
    IF i > Len(s) THEN << >>
    ELSE IF s[i] \in Digits
      THEN LET j == RunEnd(s, i, Digits)
           IN  << SubSeq(s, i, j) >> \o find_iter(s, j + 1)
    ELSE IF s[i] \in LowerLetters
      THEN LET j == RunEnd(s, i, LowerLetters)
           IN  << SubSeq(s, i, j) >> \o find_iter(s, j + 1)
    ELSE IF s[i] \in { ".", "-" }
      THEN << << s[i] >> >> \o find_iter(s, i + 1)
    ELSE find_iter(s, i + 1)

\* mutant: "dev" is left as it is
replace_part_dev_kept(p) ==
    CASE p = << "p", "r", "e" >>                      -> << "c" >>
      [] p = << "p", "r", "e", "v", "i", "e", "w" >>  -> << "c" >>
      [] p = << "-" >>                 -> << "f", "i", "n", "a", "l", "-" >>
      [] p = << "r", "c" >>                           -> << "c" >>
      [] p = << "a", "l", "p", "h", "a" >>            -> << "a" >>
      [] p = << "b", "e", "t", "a" >>                 -> << "b" >>
      [] OTHER                                        -> p

\* the match of the replacement table
replace_part(p) ==
    CASE p = << "p", "r", "e" >>                      -> << "c" >>
      [] p = << "p", "r", "e", "v", "i", "e", "w" >>  -> << "c" >>
      [] p = << "-" >>                 -> << "f", "i", "n", "a", "l", "-" >>
      [] p = << "r", "c" >>                           -> << "c" >>
      [] p = << "d", "e", "v" >>                      -> << "@" >>
      [] p = << "a", "l", "p", "h", "a" >>            -> << "a" >>
      [] p = << "b", "e", "t", "a" >>                 -> << "b" >>
      [] OTHER                                        -> p

\* mutant: no padding
pad_number_none(p) == p

\* format!("{:0>8}", p): left-padded with '0' to PadWidth, never truncated
RECURSIVE pad_number(_)
pad_number(p) == IF Len(p) >= PadWidth THEN p ELSE pad_number(<< "0" >> \o p)

\* mutant: a sentinel that sorts after the digits
tag_part_underscore(p) == << "_" >> \o p

\* format!("*{}", p)
tag_part(p) == << "*" >> \o p

FinalToken == << "*", "f", "i", "n", "a", "l" >>

FinalDashToken == << "*", "f", "i", "n", "a", "l", "-" >>

ZeroToken == pad_number(<< "0" >>)

\* first loop of parse_version over the matches ms, from index i on
RECURSIVE collect_parts(_, _)
collect_parts(ms, i) ==
    IF i > Len(ms) THEN << >>
    ELSE LET part_str == replace_part(ms[i])
         IN  IF part_str = << >> \/ part_str = << "." >>
               THEN collect_parts(ms, i + 1)
             ELSE IF is_ascii_digit(part_str[1])
               THEN << pad_number(part_str) >> \o collect_parts(ms, i + 1)
             ELSE << tag_part(part_str) >> \o collect_parts(ms, i + 1)

\* while processed.last() == Some(tok) { processed.pop() }
RECURSIVE pop_while(_, _)
pop_while(processed, tok) ==
    IF Len(processed) > 0 /\ processed[Len(processed)] = tok
      THEN pop_while(SubSeq(processed, 1, Len(processed) - 1), tok)
      ELSE processed

\* mutant: the "final-" markers are not removed
process_part_final_kept(processed, part) ==
    IF part[1] = "*"
      THEN Append(pop_while(processed, ZeroToken), part)
      ELSE Append(processed, part)

\* one iteration of the post-processing loop
process_part(processed, part) ==
    IF part[1] = "*"
      THEN LET p1 == IF StrLess(part, FinalToken)
                       THEN pop_while(processed, FinalDashToken)
                       ELSE processed
               p2 == pop_while(p1, ZeroToken)
           IN  Append(p2, part)
      ELSE Append(processed, part)

RECURSIVE post_process(_, _, _)
post_process(parts, i, processed) ==
    IF i > Len(parts) THEN processed
    ELSE post_process(parts, i + 1, process_part(processed, parts[i]))

parse_version(s) ==
    LET s_lower == to_lowercase(s)
        parts   == Append(collect_parts(find_iter(s_lower, 1), 1), FinalToken)
    IN  post_process(parts, 1, << >>)

\* mutant: the '.' is not accepted
standard_release_digits_only(version) ==
    \A i \in 1..Len(version) : is_ascii_digit(version[i])

\* standard_release
standard_release(version) ==
    \A i \in 1..Len(version) : is_ascii_digit(version[i]) \/ version[i] = "."

(***************************************************************************)
(* Data types of core.rs.  Option<T> is a record with a `some` flag.       *)
(***************************************************************************)
\* CACHE_EXPIRE_TIME
CACHE_EXPIRE_TIME == 3600

\* Option::None for Option<DateTime<Utc>>
NoDate == [ some |-> FALSE, secs |-> 0, nanos |-> 0 ]

\* Option::None for Option<UpdateResult>
None ==
    [ some |-> FALSE, crate_name |-> "", running_version |-> << >>,
      available_version |-> << >>, release_date |-> NoDate ]

\* DateTime::parse_from_rfc3339(&d).ok().map(|dt| dt.with_timezone(&Utc)):
\* a created_at string either denotes an instant (whole seconds and a
\* sub-second part) or is not RFC3339.
parse_from_rfc3339(d) ==
    IF d.rfc3339 THEN [ some |-> TRUE, secs |-> d.secs, nanos |-> d.nanos ]
    ELSE NoDate

\* UpdateResult::new, wrapped in Some
UpdateResult_new(package, running, available, release_date) ==
    [ some |-> TRUE, crate_name |-> package, running_version |-> running,
      available_version |-> available,
      release_date |-> IF release_date.some
                         THEN parse_from_rfc3339(release_date.value)
                         ELSE NoDate ]

(***************************************************************************)
(* crates_io: the registry's answer `resp` is the outcome of the HTTP      *)
(* exchange: kind "send" (transport error or timeout), "status" (a         *)
(* non-success status), "json" (undecodable body) or "ok" with the         *)
(* decoded versions, a sequence of VersionInfo [num, created_at, yanked].  *)
(***************************************************************************)
\* mutant: nothing is filtered out
filter_not_yanked_none(vs, i) == SubSeq(vs, i, Len(vs))

\* versions.iter().filter(|v| !v.yanked).collect()
RECURSIVE filter_not_yanked(_, _)
filter_not_yanked(vs, i) ==
    IF i > Len(vs) THEN << >>
    ELSE IF vs[i].yanked THEN filter_not_yanked(vs, i + 1)
    ELSE << vs[i] >> \o filter_not_yanked(vs, i + 1)

\* Position of v in a list sorted by the comparator
\* parse_version(&b.num).cmp(&parse_version(&a.num)): behind every element
\* whose key is greater than or equal to its own (the sort is stable).
RECURSIVE insert_pos(_, _, _)
insert_pos(sorted, v, i) ==
    IF i > Len(sorted) THEN i
    ELSE IF VecLess(parse_version(sorted[i].num), parse_version(v.num)) THEN i
    ELSE insert_pos(sorted, v, i + 1)

\* versions.sort_by(..): stable, newest first
RECURSIVE sort_by_version(_, _, _)
sort_by_version(vs, i, sorted) ==
    IF i > Len(vs) THEN sorted
    ELSE LET p == insert_pos(sorted, vs[i], 1)
         IN  sort_by_version(vs, i + 1,
                 SubSeq(sorted, 1, p - 1) \o << vs[i] >>
                     \o SubSeq(sorted, p, Len(sorted)))

\* mutant: the first version is taken whatever the preference
find_suitable_any(vs, include_prereleases, i) == IF i > Len(vs) THEN 0 ELSE i

\* versions.iter().find(|v| include_prereleases || standard_release(&v.num)):
\* the index of the first match, 0 when there is none
RECURSIVE find_suitable(_, _, _)
find_suitable(vs, include_prereleases, i) ==
    IF i > Len(vs) THEN 0
    ELSE IF include_prereleases \/ standard_release(vs[i].num) THEN i
    ELSE find_suitable(vs, include_prereleases, i + 1)

CratesIoErr == [ ok |-> FALSE, version |-> << >>, created_at |-> [ some |-> FALSE ] ]

crates_io(resp, include_prereleases) ==
    IF resp.kind # "ok" THEN CratesIoErr
    ELSE LET versions == filter_not_yanked(resp.versions, 1)
         IN  IF versions = << >> THEN CratesIoErr
             ELSE LET sorted == sort_by_version(versions, 1, << >>)
                      idx    == find_suitable(sorted, include_prereleases, 1)
                  IN  IF idx = 0 THEN CratesIoErr
                      ELSE [ ok |-> TRUE, version |-> sorted[idx].num,
                             created_at |-> [ some |-> TRUE,
                                              value |-> sorted[idx].created_at ] ]

\* mutant: `>` for `>=`, an equal version counts as newer
check_result_equal_newer(crate_name, crate_version, resp) ==
    LET include_prereleases == ~ standard_release(crate_version)
        data == crates_io(resp, include_prereleases)
    IN  IF data.ok
          THEN IF VecLess(parse_version(data.version), parse_version(crate_version))
                 THEN None
                 ELSE UpdateResult_new(crate_name, crate_version,
                                       data.version, data.created_at)
          ELSE None

\* the match in UpdateChecker::check that turns the registry's answer into
\* the check's result
check_result(crate_name, crate_version, resp) ==
    LET include_prereleases == ~ standard_release(crate_version)
        data == crates_io(resp, include_prereleases)
    IN  IF data.ok
          THEN IF VecLeq(parse_version(data.version), parse_version(crate_version))
                 THEN None
                 ELSE UpdateResult_new(crate_name, crate_version,
                                       data.version, data.created_at)
          ELSE None

(***************************************************************************)
(* The cache file: postcard bytes of the map.  release_date is written     *)
(* with chrono::serde::ts_seconds_option, i.e. as whole seconds.           *)
(***************************************************************************)
\* ts_seconds_option::serialize
ser_date(d) == [ some |-> d.some, secs |-> d.secs ]

\* ts_seconds_option::deserialize
de_date(b) == [ some |-> b.some, secs |-> b.secs, nanos |-> 0 ]

ser_result(r) == [ r EXCEPT !.release_date = ser_date(r.release_date) ]

de_result(b) == [ b EXCEPT !.release_date = de_date(b.release_date) ]

\* postcard::to_allocvec(&*locked_cache)
to_allocvec(cache) ==
    [ k \in DOMAIN cache |->
        [ timestamp |-> cache[k].timestamp, result |-> ser_result(cache[k].result) ] ]

\* mutant: the entries are stamped anew on loading
from_bytes_restamped(data) ==
    [ k \in DOMAIN data |->
        [ timestamp |-> 0, result |-> de_result(data[k].result) ] ]

\* postcard::from_bytes::<HashMap<(String, String), CacheEntry>>(&data)
from_bytes(data) ==
    [ k \in DOMAIN data |->
        [ timestamp |-> data[k].timestamp, result |-> de_result(data[k].result) ] ]

EmptyMap == [ k \in {} |-> None ]

FileMissing == [ kind |-> "missing", data |-> EmptyMap ]

FileCorrupt == [ kind |-> "corrupt", data |-> EmptyMap ]

FileData(bytes) == [ kind |-> "data", data |-> bytes ]

\* mutant: the bytes are decoded whether the read succeeded or not
load_from_permacache_unchecked(file, read_ok) ==
    IF file.kind = "data" THEN from_bytes(file.data) ELSE EmptyMap

\* the map load_from_permacache leaves in memory: the decoded file when
\* the read and the decoding succeed, the empty map of new() otherwise
load_from_permacache(file, read_ok) ==
    IF read_ok /\ file.kind = "data" THEN from_bytes(file.data) ELSE EmptyMap

\* mutant: an entry already under the key is kept (entry().or_insert)
map_insert_kept(cache, key, entry) ==
    [ k \in DOMAIN cache \cup { key } |-> IF k \in DOMAIN cache THEN cache[k] ELSE entry ]

\* mutant: an absent outcome is not stored
map_insert_present(cache, key, entry) ==
    IF entry.result.some
      THEN [ k \in DOMAIN cache \cup { key } |-> IF k = key THEN entry ELSE cache[k] ]
      ELSE cache

\* mutant: the map is replaced by the one entry
map_insert_alone(cache, key, entry) == [ k \in { key } |-> entry ]

\* HashMap::insert
map_insert(cache, key, entry) ==
    [ k \in DOMAIN cache \cup { key } |-> IF k = key THEN entry ELSE cache[k] ]

(***************************************************************************)
(* `now - entry.timestamp < CACHE_EXPIRE_TIME` on u64.  With overflow      *)
(* checks on (a debug build) the subtraction panics when the timestamp is  *)
(* greater than now; with them off (a release build) it wraps to           *)
(* 2^64 - (timestamp - now), which is not below the expiry time for any    *)
(* pair of clock readings of the model.                                    *)
(***************************************************************************)
sub_overflows(now, timestamp) == timestamp > now

\* mutant: the comparison the wrong way round
entry_fresh_reversed(now, timestamp) ==
    IF sub_overflows(now, timestamp) THEN FALSE
    ELSE now - timestamp > CACHE_EXPIRE_TIME

\* mutant: `<=` for `<`
entry_fresh_inclusive(now, timestamp) ==
    IF sub_overflows(now, timestamp) THEN FALSE
    ELSE now - timestamp <= CACHE_EXPIRE_TIME

entry_fresh(now, timestamp) ==
    IF sub_overflows(now, timestamp) THEN FALSE
    ELSE now - timestamp < CACHE_EXPIRE_TIME

\* mutant: the cache block is entered whatever bypass_cache is
cache_lookup_always(bypass_cache, prior, now, overflow_checks) ==
    IF prior.found
      THEN IF overflow_checks /\ sub_overflows(now, prior.timestamp) THEN "panic"
           ELSE IF entry_fresh(now, prior.timestamp) THEN "hit"
           ELSE "miss"
      ELSE "miss"

\* check, lines 252-260: what the cache block of check does with the entry
\* found under the key (prior): "hit" returns entry.result, "miss" goes on
\* to the registry, "panic" is the overflow of the subtraction
cache_lookup(bypass_cache, prior, now, overflow_checks) ==
    IF ~ bypass_cache /\ prior.found
      THEN IF overflow_checks /\ sub_overflows(now, prior.timestamp) THEN "panic"
           ELSE IF entry_fresh(now, prior.timestamp) THEN "hit"
           ELSE "miss"
      ELSE "miss"

(***************************************************************************)
(* State.                                                                  *)
(*   clock    the system clock, seconds since the epoch (SystemTime::now)  *)
(*   file     {temp_dir}/updates_cache.bin, shared by every checker        *)
(*   pc       per checker: "none" (not constructed), "idle", inside        *)
(*            check ("query", "insert", "save") or "panicked"              *)
(*   bypass   per checker: UpdateChecker.bypass_cache                      *)
(*   cache    per checker: UpdateChecker.cache, the in-memory map          *)
(*   call     per checker: the arguments, locals and return value of the   *)
(*            running or last check, with what it found in the map         *)
(*   nchecks  the number of checks started, which bounds the run           *)
(*   probe    the inputs and outputs of the pure functions under SpecKey   *)
(*   lock     the Mutex of the checker the threads share: the thread that  *)
(*            holds it (0 for none) and whether it is poisoned             *)
(*   tpc      per thread: its position inside check                        *)
(*   tcall    per thread: the record of its running or last check          *)
(*   asked    history: the registry queries made so far, each with its     *)
(*            key, the clock reading of its check and its outcome (kept    *)
(*            under SpecShared)                                            *)
(***************************************************************************)
VARIABLES clock, file, pc, bypass, cache, call, nchecks, probe, lock, tpc, tcall,
          asked

vars ==
    << clock, file, pc, bypass, cache, call, nchecks, probe, lock, tpc, tcall,
       asked >>

NumCheckers == 2

MaxChecks == 2

Checkers == 1..NumCheckers

NumThreads == 2

Threads == 1..NumThreads

\* the Mutex as Mutex::new leaves it
Unlocked == [ holder |-> 0, poisoned |-> FALSE ]

NoEntry == [ found |-> FALSE, timestamp |-> 0, result |-> None ]

FoundEntry(e) == [ found |-> TRUE, timestamp |-> e.timestamp, result |-> e.result ]

NoResp == [ kind |-> "none", versions |-> << >> ]

NoCall ==
    [ key |-> << "", << >> >>, now |-> 0, prior |-> NoEntry, resp |-> NoResp,
      result |-> None, from |-> "none", write |-> "none" ]

NoProbe ==
    [ a |-> << >>, b |-> << >>, ka |-> << >>, kb |-> << >>, done |-> FALSE,
      classified |-> FALSE, std |-> FALSE ]

\* the state before any checker of the run is constructed, the cache file
\* being f
InitState(f) ==
    /\ clock = 0
    /\ file = f
    /\ pc = [ c \in Checkers |-> "none" ]
    /\ bypass = [ c \in Checkers |-> FALSE ]
    /\ cache = [ c \in Checkers |-> EmptyMap ]
    /\ call = [ c \in Checkers |-> NoCall ]
    /\ nchecks = 0
    /\ lock = Unlocked
    /\ tpc = [ t \in Threads |-> "idle" ]
    /\ tcall = [ t \in Threads |-> NoCall ]
    /\ asked = {}

\* the state before any checker is constructed: no cache file yet
InitMachine == InitState(FileMissing)

(***************************************************************************)
(* UpdateChecker::new(bypass_cache): checker c comes into being, in a new  *)
(* process or in place of a checker that is not inside a check.            *)
(* read_ok: whether fs::read succeeds on an existing file.                 *)
(***************************************************************************)
New(c, bypass_cache, read_ok) ==
    /\ pc[c] \in { "none", "idle", "panicked" }
    /\ bypass' = [ bypass EXCEPT ![c] = bypass_cache ]
    /\ cache' = [ cache EXCEPT ![c] = load_from_permacache(file, read_ok) ]
    /\ pc' = [ pc EXCEPT ![c] = "idle" ]
    /\ call' = [ call EXCEPT ![c] = NoCall ]
    /\ UNCHANGED << clock, file, nchecks, probe, lock, tpc, tcall, asked >>

(***************************************************************************)
(* check, lines 244-260: read the clock, build the key, look the key up.   *)
(* overflow_checks: whether the binary was built with overflow checks.     *)
(***************************************************************************)
CheckBegin(c, crate_name, crate_version, overflow_checks) ==
    /\ pc[c] = "idle"
    /\ LET now   == clock
           key   == << crate_name, crate_version >>
           prior == IF key \in DOMAIN cache[c]
                      THEN FoundEntry(cache[c][key]) ELSE NoEntry
           started == [ NoCall EXCEPT !.key = key, !.now = now, !.prior = prior ]
           looked == cache_lookup(bypass[c], prior, now, overflow_checks)
       IN  CASE looked = "panic" ->
                  /\ pc' = [ pc EXCEPT ![c] = "panicked" ]
                  /\ call' = [ call EXCEPT ![c] = [ started EXCEPT !.from = "panic" ] ]
             [] looked = "hit" ->
                  \* return entry.result.clone()
                  /\ pc' = pc
                  /\ call' = [ call EXCEPT ![c] =
                                 [ started EXCEPT !.from = "cache",
                                                  !.result = prior.result ] ]
             [] looked = "miss" ->
                  /\ pc' = [ pc EXCEPT ![c] = "query" ]
                  /\ call' = [ call EXCEPT ![c] = started ]
    /\ nchecks' = nchecks + 1
    /\ UNCHANGED << clock, file, bypass, cache, probe, lock, tpc, tcall, asked >>

\* check, lines 262-278: the registry answers resp
CheckQuery(c, resp) ==
    /\ pc[c] = "query"
    /\ call' = [ call EXCEPT ![c].resp = resp,
                             ![c].result = check_result(call[c].key[1],
                                                        call[c].key[2], resp) ]
    /\ pc' = [ pc EXCEPT ![c] = "insert" ]
    /\ UNCHANGED << clock, file, bypass, cache, nchecks, probe, lock, tpc, tcall, asked >>

\* the history's record of a registry query: the key, the clock reading
\* of the check that made it (line 244) and its outcome (lines 263-278)
Query(key, started, result) ==
    [ key |-> key, started |-> started, result |-> result ]

\* CheckQuery, the query being written into the history
CheckQueryLogged(c, resp) ==
    /\ pc[c] = "query"
    /\ LET result == check_result(call[c].key[1], call[c].key[2], resp)
       IN  /\ call' = [ call EXCEPT ![c].resp = resp, ![c].result = result ]
           /\ asked' = asked \cup { Query(call[c].key, call[c].now, result) }
    /\ pc' = [ pc EXCEPT ![c] = "insert" ]
    /\ UNCHANGED << clock, file, bypass, cache, nchecks, probe, lock, tpc, tcall >>

\* mutant: the entry is stamped with the clock reading at the insert
CheckInsert_stamped_late(c) ==
    /\ pc[c] = "insert"
    /\ cache' = [ cache EXCEPT ![c] =
                    map_insert(cache[c], call[c].key,
                               [ timestamp |-> clock,
                                 result |-> call[c].result ]) ]
    /\ pc' = [ pc EXCEPT ![c] = "save" ]
    /\ UNCHANGED << clock, file, bypass, call, nchecks, probe, lock, tpc, tcall, asked >>

\* check, lines 280-289: insert the entry under the lock
CheckInsert(c) ==
    /\ pc[c] = "insert"
    /\ cache' = [ cache EXCEPT ![c] =
                    map_insert(cache[c], call[c].key,
                               [ timestamp |-> call[c].now,
                                 result |-> call[c].result ]) ]
    /\ pc' = [ pc EXCEPT ![c] = "save" ]
    /\ UNCHANGED << clock, file, bypass, call, nchecks, probe, lock, tpc, tcall, asked >>

\* what fs::write(path, data) leaves behind: the data, the old file when
\* the file cannot be opened, or a truncated file when the write breaks off
file_after_write(old, data, write) ==
    CASE write = "ok"        -> FileData(data)
      [] write = "unopened"  -> old
      [] write = "truncated" -> FileCorrupt

WriteOutcomes == { "ok", "unopened", "truncated" }

\* check, lines 291-292 with save_to_permacache, then return result
CheckSave(c, write) ==
    /\ pc[c] = "save"
    /\ file' = file_after_write(file, to_allocvec(cache[c]), write)
    /\ call' = [ call EXCEPT ![c].from = "registry", ![c].write = write ]
    /\ pc' = [ pc EXCEPT ![c] = "idle" ]
    /\ UNCHANGED << clock, bypass, cache, nchecks, probe, lock, tpc, tcall, asked >>

\* the system clock moves forward to the reading t
Tick(t) ==
    /\ t > clock
    /\ clock' = t
    /\ UNCHANGED << file, pc, bypass, cache, call, nchecks, probe, lock, tpc, tcall, asked >>

\* the system clock is set back to the reading t (SystemTime is not
\* monotonic)
ClockBack(t) ==
    /\ t < clock
    /\ clock' = t
    /\ UNCHANGED << file, pc, bypass, cache, call, nchecks, probe, lock, tpc, tcall, asked >>

(***************************************************************************)
(* The threads of one process that share one checker, TheChecker (a        *)
(* &UpdateChecker is Sync).  Each step of check that takes the Mutex is    *)
(* two actions, the acquisition and the block under the guard.  lock() on  *)
(* a poisoned Mutex returns Err and the `if let Ok(..)` block is skipped.  *)
(***************************************************************************)
TheChecker == 1

\* check, lines 244-252: read the clock, build the key, test bypass_cache
TBegin(t, crate_name, crate_version) ==
    /\ pc[TheChecker] = "idle"
    /\ tpc[t] = "idle"
    /\ tcall' = [ tcall EXCEPT ![t] =
                    [ NoCall EXCEPT !.key = << crate_name, crate_version >>,
                                    !.now = clock ] ]
    /\ tpc' = [ tpc EXCEPT ![t] = IF bypass[TheChecker] THEN "query" ELSE "lookup" ]
    /\ nchecks' = nchecks + 1
    /\ UNCHANGED << clock, file, pc, bypass, cache, call, probe, lock, asked >>

\* check, line 253: self.cache.lock()
TLookupLock(t) ==
    /\ tpc[t] = "lookup"
    /\ lock.holder = 0
    /\ IF lock.poisoned
         THEN /\ tpc' = [ tpc EXCEPT ![t] = "query" ]
              /\ lock' = lock
         ELSE /\ tpc' = [ tpc EXCEPT ![t] = "locked_lookup" ]
              /\ lock' = [ lock EXCEPT !.holder = t ]
    /\ UNCHANGED << clock, file, pc, bypass, cache, call, nchecks, probe, tcall, asked >>

\* mutant: the guard lives on after a miss
after_lookup_held(t, looked) ==
    CASE looked = "panic" -> [ holder |-> 0, poisoned |-> TRUE ]
      [] looked = "hit"   -> Unlocked
      [] looked = "miss"  -> [ holder |-> t, poisoned |-> FALSE ]

\* the Mutex once the guard of the lookup block is dropped: at the end of
\* the block (line 259), at the return (line 256), or while the panic of
\* line 255 unwinds, which poisons it
after_lookup(t, looked) ==
    CASE looked = "panic" -> [ holder |-> 0, poisoned |-> TRUE ]
      [] looked = "hit"   -> Unlocked
      [] looked = "miss"  -> Unlocked

\* check, lines 254-259, under the guard
TLookup(t, overflow_checks) ==
    /\ tpc[t] = "locked_lookup"
    /\ LET key    == tcall[t].key
           m      == cache[TheChecker]
           prior  == IF key \in DOMAIN m THEN FoundEntry(m[key]) ELSE NoEntry
           found  == [ tcall[t] EXCEPT !.prior = prior ]
           looked == cache_lookup(bypass[TheChecker], prior, tcall[t].now,
                                  overflow_checks)
       IN  /\ lock' = after_lookup(t, looked)
           /\ CASE looked = "panic" ->
                    /\ tpc' = [ tpc EXCEPT ![t] = "panicked" ]
                    /\ tcall' = [ tcall EXCEPT ![t] = [ found EXCEPT !.from = "panic" ] ]
               [] looked = "hit" ->
                    /\ tpc' = [ tpc EXCEPT ![t] = "idle" ]
                    /\ tcall' = [ tcall EXCEPT ![t] =
                                    [ found EXCEPT !.from = "cache",
                                                   !.result = prior.result ] ]
               [] looked = "miss" ->
                    /\ tpc' = [ tpc EXCEPT ![t] = "query" ]
                    /\ tcall' = [ tcall EXCEPT ![t] = found ]
    /\ UNCHANGED << clock, file, pc, bypass, cache, call, nchecks, probe, asked >>

\* check, lines 262-278: the registry answers resp; no guard is alive
TQuery(t, resp) ==
    /\ tpc[t] = "query"
    /\ tcall' = [ tcall EXCEPT ![t].resp = resp,
                               ![t].result = check_result(tcall[t].key[1],
                                                          tcall[t].key[2], resp) ]
    /\ tpc' = [ tpc EXCEPT ![t] = "insert" ]
    /\ UNCHANGED << clock, file, pc, bypass, cache, call, nchecks, probe, lock, asked >>

\* check, line 281: self.cache.lock()
TInsertLock(t) ==
    /\ tpc[t] = "insert"
    /\ lock.holder = 0
    /\ IF lock.poisoned
         THEN /\ tpc' = [ tpc EXCEPT ![t] = "save" ]
              /\ lock' = lock
         ELSE /\ tpc' = [ tpc EXCEPT ![t] = "locked_insert" ]
              /\ lock' = [ lock EXCEPT !.holder = t ]
    /\ UNCHANGED << clock, file, pc, bypass, cache, call, nchecks, probe, tcall, asked >>

\* check, lines 282-289, under the guard
TInsert(t) ==
    /\ tpc[t] = "locked_insert"
    /\ cache' = [ cache EXCEPT ![TheChecker] =
                    map_insert(cache[TheChecker], tcall[t].key,
                               [ timestamp |-> tcall[t].now,
                                 result |-> tcall[t].result ]) ]
    /\ lock' = [ lock EXCEPT !.holder = 0 ]
    /\ tpc' = [ tpc EXCEPT ![t] = "save" ]
    /\ UNCHANGED << clock, file, pc, bypass, call, nchecks, probe, tcall, asked >>

\* save_to_permacache, line 206: self.cache.lock(); when it is Err nothing
\* is written and check returns its result
TSaveLock(t) ==
    /\ tpc[t] = "save"
    /\ lock.holder = 0
    /\ IF lock.poisoned
         THEN /\ tpc' = [ tpc EXCEPT ![t] = "idle" ]
              /\ tcall' = [ tcall EXCEPT ![t].from = "registry",
                                         ![t].write = "skipped" ]
              /\ lock' = lock
         ELSE /\ tpc' = [ tpc EXCEPT ![t] = "locked_save" ]
              /\ tcall' = tcall
              /\ lock' = [ lock EXCEPT !.holder = t ]
    /\ UNCHANGED << clock, file, pc, bypass, cache, call, nchecks, probe, asked >>

\* save_to_permacache, lines 207-210, under the guard, then return result
TSave(t, write) ==
    /\ tpc[t] = "locked_save"
    /\ file' = file_after_write(file, to_allocvec(cache[TheChecker]), write)
    /\ tcall' = [ tcall EXCEPT ![t].from = "registry", ![t].write = write ]
    /\ lock' = [ lock EXCEPT !.holder = 0 ]
    /\ tpc' = [ tpc EXCEPT ![t] = "idle" ]
    /\ UNCHANGED << clock, pc, bypass, cache, call, nchecks, probe, asked >>

(***************************************************************************)
(* Inputs.                                                                 *)
(***************************************************************************)
V_1_0_0 == << "1", ".", "0", ".", "0" >>
V_1_2_0 == << "1", ".", "2", ".", "0" >>
V_1_9_0 == << "1", ".", "9", ".", "0" >>
V_2_0_0 == << "2", ".", "0", ".", "0" >>
V_0_9_0 == << "0", ".", "9", ".", "0" >>
V_1_0_0_alpha_1 == V_1_0_0 \o << "-", "a", "l", "p", "h", "a", ".", "1" >>
V_1_0_0_alpha_2 == V_1_0_0 \o << "-", "a", "l", "p", "h", "a", ".", "2" >>
V_2_0_0_rc1 == V_2_0_0 \o << "-", "r", "c", "1" >>

\* created_at strings: an instant with a sub-second part, as crates.io
\* sends them, and a string that is not RFC3339
Created == [ rfc3339 |-> TRUE, secs |-> 1700000000, nanos |-> 123456000 ]

Info(num, yanked) == [ num |-> num, created_at |-> Created, yanked |-> yanked ]

Ok(versions) == [ kind |-> "ok", versions |-> versions ]

Failures == { [ kind |-> k, versions |-> << >> ] : k \in { "send", "status", "json" } }

\* clock readings: ages of 1, CACHE_EXPIRE_TIME - 1, CACHE_EXPIRE_TIME and
\* CACHE_EXPIRE_TIME + 1 seconds occur between them
ClockReadings == { 0, 1, CACHE_EXPIRE_TIME, CACHE_EXPIRE_TIME + 1 }

CrateNames == { "serde", "tokio" }

RunningVersions == { V_1_0_0 }

Responses ==
    { [ kind |-> "send", versions |-> << >> ],
      Ok(<< Info(V_1_0_0, FALSE) >>),
      Ok(<< Info(V_1_0_0, FALSE), Info(V_1_2_0, FALSE) >>) }

\* Spec: the runs of one program after another on one machine; each run
\* constructs a checker (slot 1) and checks with it
Runs == { 1 }

Init == InitMachine /\ probe = NoProbe

Next ==
    \/ \E c \in Runs, b \in BOOLEAN, r \in BOOLEAN : New(c, b, r)
    \/ \E c \in Runs, n \in CrateNames, v \in RunningVersions, oc \in BOOLEAN :
          nchecks < MaxChecks /\ CheckBegin(c, n, v, oc)
    \/ \E c \in Runs : pc[c] = "query" /\ \E resp \in Responses : CheckQuery(c, resp)
    \/ \E c \in Runs : CheckInsert(c)
    \/ \E c \in Runs, w \in WriteOutcomes : CheckSave(c, w)
    \/ \E t \in ClockReadings : Tick(t)
    \/ \E t \in ClockReadings : ClockBack(t)

Spec == Init /\ [][Next]_vars

(***************************************************************************)
(* SpecShared: several processes on one machine, each with its own checker *)
(* (constructed once, with bypass_cache = false, in the order of their     *)
(* numbers) and all with the same cache file, their steps interleaved.     *)
(* The clock does not go back and the file is read and written without     *)
(* failure.  The registry queries are written into the history `asked`.    *)
(***************************************************************************)
SharedReadings == { 0, 1, CACHE_EXPIRE_TIME }

SharedResponses ==
    { [ kind |-> "send", versions |-> << >> ],
      Ok(<< Info(V_1_0_0, FALSE), Info(V_1_2_0, FALSE) >>) }

NextShared ==
    \/ \E c \in Checkers :
          /\ pc[c] = "none" /\ \A d \in 1..(c - 1) : pc[d] # "none"
          /\ New(c, FALSE, TRUE)
    \/ \E c \in Checkers, n \in CrateNames, v \in RunningVersions, oc \in BOOLEAN :
          nchecks < MaxChecks /\ CheckBegin(c, n, v, oc)
    \/ \E c \in Checkers : pc[c] = "query" /\ \E resp \in SharedResponses : CheckQueryLogged(c, resp)
    \/ \E c \in Checkers : CheckInsert(c)
    \/ \E c \in Checkers : CheckSave(c, "ok")
    \/ \E t \in SharedReadings : Tick(t)

SpecShared == Init /\ [][NextShared]_vars

(***************************************************************************)
(* SpecThreads: one process constructs a checker and its threads check     *)
(* with it, a thread starting its first check once the threads of lower    *)
(* number have started theirs.  The cache file is missing or was left by   *)
(* an earlier run with an entry for serde 1.0.0, stamped 0 or, the clock   *)
(* having been set back since, 1.  The clock reads 0 throughout the run.   *)
(***************************************************************************)
\* the timestamps of the entry of the earlier run
ThreadReadings == { 0, 1 }

\* the map an earlier run left after a check of serde 1.0.0 at time ts
PreviousRun(ts) ==
    map_insert(EmptyMap, << "serde", V_1_0_0 >>,
               [ timestamp |-> ts,
                 result |-> check_result("serde", V_1_0_0,
                               Ok(<< Info(V_1_0_0, FALSE), Info(V_1_2_0, FALSE) >>)) ])

InitThreads ==
    /\ \E f \in { FileMissing } \cup
                 { FileData(to_allocvec(PreviousRun(ts))) : ts \in ThreadReadings } :
           InitState(f)
    /\ probe = NoProbe

NextThreads ==
    \/ \E b \in BOOLEAN, r \in BOOLEAN : pc[TheChecker] = "none" /\ New(TheChecker, b, r)
    \/ \E t \in Threads, n \in CrateNames, v \in RunningVersions :
          /\ nchecks < MaxChecks
          /\ \A u \in 1..(t - 1) : tcall[u] # NoCall
          /\ TBegin(t, n, v)
    \/ \E t \in Threads : TLookupLock(t)
    \/ \E t \in Threads, oc \in BOOLEAN : TLookup(t, oc)
    \/ \E t \in Threads : tpc[t] = "query" /\ \E resp \in SharedResponses : TQuery(t, resp)
    \/ \E t \in Threads : TInsertLock(t)
    \/ \E t \in Threads : TInsert(t)
    \/ \E t \in Threads : TSaveLock(t)
    \/ \E t \in Threads, w \in WriteOutcomes : TSave(t, w)

SpecThreads == InitThreads /\ [][NextThreads]_vars

(***************************************************************************)
(* SpecResolve: the first check of a checker, against every answer of the  *)
(* registry with at most MaxVersions versions out of RegistryVersions.     *)
(***************************************************************************)
MaxVersions == 3

ResolveCrates == { "serde" }

ResolveRunning == { V_1_0_0, V_2_0_0, V_1_0_0_alpha_1 }

RegistryVersions ==
    { V_0_9_0, V_1_0_0, V_1_2_0, V_1_9_0, V_1_0_0_alpha_2, V_2_0_0_rc1 }

VersionInfos == { Info(v, y) : v \in RegistryVersions, y \in BOOLEAN }

VersionLists == UNION { [ 1..n -> VersionInfos ] : n \in 0..MaxVersions }

ResolveResponses == Failures \cup { Ok(vs) : vs \in VersionLists }

NextResolve ==
    \/ \E b \in BOOLEAN, r \in BOOLEAN : New(1, b, r)
    \/ \E n \in ResolveCrates, v \in ResolveRunning, oc \in BOOLEAN :
          nchecks = 0 /\ CheckBegin(1, n, v, oc)
    \/ pc[1] = "query" /\ \E resp \in ResolveResponses : CheckQuery(1, resp)
    \/ CheckInsert(1)
    \/ \E w \in WriteOutcomes : CheckSave(1, w)

SpecResolve == Init /\ [][NextResolve]_vars

(***************************************************************************)
(* SpecKey: parse_version applied to a pair of version strings.            *)
(***************************************************************************)
\* the probe: both strings are parsed
Parse ==
    /\ ~ probe.done
    /\ probe' = [ probe EXCEPT !.ka = parse_version(probe.a),
                               !.kb = parse_version(probe.b),
                               !.done = TRUE ]
    /\ UNCHANGED << clock, file, pc, bypass, cache, call, nchecks,
                 lock, tpc, tcall, asked >>

MaxComponents == 3

\* digit runs: zero, one digit, a leading zero, PadWidth digits
Components ==
    { << "0" >>, << "2" >>, << "0", "2" >>,
      << "1", "0", "0", "0", "0", "0", "0", "0" >> }

ComponentLists == UNION { [ 1..n -> Components ] : n \in 0..MaxComponents }

\* the components joined by '.'
RECURSIVE JoinFrom(_, _)
JoinFrom(cs, i) ==
    IF i > Len(cs) THEN << >>
    ELSE IF i = Len(cs) THEN cs[i]
    ELSE cs[i] \o << "." >> \o JoinFrom(cs, i + 1)

Join(cs) == JoinFrom(cs, 1)

\* numeric prefixes: one component or more
Prefixes == { Join(cs) : cs \in ComponentLists \ { << >> } }

\* standard releases, the empty string among them
Releases == { Join(cs) : cs \in ComponentLists }

T_dev == << "d", "e", "v" >>
T_alpha == << "a", "l", "p", "h", "a" >>
T_beta == << "b", "e", "t", "a" >>
T_rc == << "r", "c" >>

\* numbers of a numbered tag: up to PadWidth digits, and one digit more
TagNumbers ==
    { << "0" >>, << "1" >>, << "2" >>, << "1", "0" >>,
      << "9", "9", "9", "9", "9", "9", "9", "9" >>,
      << "1", "0", "0", "0", "0", "0", "0", "0", "0" >> }

\* what follows the numeric prefix: nothing, -tag, or -rcN
Suffixes ==
    { << >> } \cup { << "-" >> \o t : t \in { T_dev, T_alpha, T_beta, T_rc } }
        \cup { << "-" >> \o T_rc \o n : n \in TagNumbers }

T_pre == << "p", "r", "e" >>
T_preview == << "p", "r", "e", "v", "i", "e", "w" >>
T_post == << "p", "o", "s", "t" >>
T_nightly == << "n", "i", "g", "h", "t", "l", "y" >>

\* what makes a string a pre-release for standard_release: a hyphen and a
\* known tag, a tag with no hyphen, a hyphen and a number, a hyphen and
\* another tag, a bare hyphen
PrereleaseSuffixes ==
    { << "-" >> \o t \o n : t \in { T_dev, T_alpha, T_beta, T_rc, T_pre, T_preview },
                           n \in { << >>, << "1" >>, << ".", "1" >> } }
        \cup { T_alpha, T_beta \o << "1" >>, T_rc \o << "1" >>, T_post \o << "1" >> }
        \cup { << "-", "1" >>, << "-" >> \o T_post \o << "1" >>,
               << "-" >> \o T_nightly, << "-" >> }

\* spellings of the release candidate 1 and of the bare release candidate
RcOneSpellings ==
    { << "-", "r", "c", "1" >>, << "-", "R", "C", "1" >>, << "-", "R", "c", "1" >>,
      << "-", "p", "r", "e", "1" >>, << "-", "P", "R", "E", ".", "1" >>,
      << "-", "p", "r", "e", "v", "i", "e", "w", "1" >>,
      << "-", "P", "r", "e", "v", "i", "e", "w", ".", "1" >>,
      << "-", "r", "c", ".", "1" >> }

RcBareSpellings ==
    { << "-", "r", "c" >>, << "-", "R", "C" >>, << "-", "p", "r", "e" >>,
      << "-", "P", "r", "e" >>, << "-", "p", "r", "e", "v", "i", "e", "w" >> }

\* the tags of a pre-release that sits below its release, bare and numbered
TagSuffixes ==
    { << "-" >> \o t \o n : t \in { T_dev, T_alpha, T_beta, T_rc, T_pre, T_preview },
                           n \in { << >>, << "1" >> } }

\* releases of at most MaxShort components, for the pairs of two releases
\* of which one carries a tag
MaxShort == 2

ShortLists == UNION { [ 1..n -> Components ] : n \in 0..MaxShort }

ShortReleases == { Join(cs) : cs \in ShortLists }

ShortPrefixes == { Join(cs) : cs \in ShortLists \ { << >> } }

\* the pairs of strings parse_version is probed with: two releases; two
\* suffixes of one prefix; a pre-release and its prefix; two spellings; a
\* prefix continued by a tag and by a number; a release and a tagged release
KeyPairs ==
    (Releases \X Releases)
        \cup { << x \o s1, x \o s2 >> : x \in Prefixes, s1 \in Suffixes, s2 \in Suffixes }
        \cup { << x \o s, x >> : x \in Prefixes, s \in PrereleaseSuffixes }
        \cup { << x \o s1, x \o s2 >> :
                   x \in Prefixes, s1 \in RcOneSpellings, s2 \in RcOneSpellings }
        \cup { << x \o s1, x \o s2 >> :
                   x \in Prefixes, s1 \in RcBareSpellings, s2 \in RcBareSpellings }
        \cup { << x \o s, x \o << "." >> \o n >> :
                   x \in Prefixes, s \in TagSuffixes, n \in Components }
        \cup { << y, x \o s >> :
                   y \in ShortReleases, x \in ShortPrefixes, s \in TagSuffixes }

InitKey ==
    /\ InitMachine
    /\ probe \in { [ NoProbe EXCEPT !.a = p[1], !.b = p[2] ] : p \in KeyPairs }

NextKey == Parse

SpecKey == InitKey /\ [][NextKey]_vars

(***************************************************************************)
(* SpecClass: standard_release applied to a string of at most MaxStrLen    *)
(* characters: digits, '.', '-', '+', '_', letters of both cases.          *)
(***************************************************************************)
\* the probe: the string is classified
Classify ==
    /\ ~ probe.classified
    /\ probe' = [ probe EXCEPT !.std = standard_release(probe.a),
                               !.classified = TRUE ]
    /\ UNCHANGED << clock, file, pc, bypass, cache, call, nchecks,
                 lock, tpc, tcall, asked >>

MaxStrLen == 3

ClassChars == { "0", "9", ".", "-", "+", "_", "a", "Z" }

ClassStrings == UNION { [ 1..n -> ClassChars ] : n \in 0..MaxStrLen }

InitClass ==
    /\ InitMachine
    /\ probe \in { [ NoProbe EXCEPT !.a = v ] : v \in ClassStrings }

NextClass == Classify

SpecClass == InitClass /\ [][NextClass]_vars

(***************************************************************************)
(* Properties of the cache (Spec).                                         *)
(***************************************************************************)
\* checker c has started a check since it was constructed
Called(c) == pc[c] # "none" /\ call[c] # NoCall

\* the age of the entry the check of c found under its key
PriorAge(c) == call[c].now - call[c].prior.timestamp

\* the check of c found an entry written at or before its clock reading
PriorInPast(c) == call[c].prior.found /\ call[c].prior.timestamp <= call[c].now

\* the check of c went to the registry: it waits for the answer or has it
ReachedRegistry(c) == pc[c] = "query" \/ call[c].resp # NoResp

\* the check of c returned the outcome of the entry it found, with no
\* registry query
ServedFromCache(c) ==
    /\ pc[c] = "idle"
    /\ call[c].from = "cache"
    /\ call[c].result = call[c].prior.result
    /\ call[c].resp = NoResp

\* the check of c has not inserted its entry: the map of c is the map the
\* check looked its key up in
NotYetInserted(c) ==
    pc[c] \in { "query", "insert" } \/ (pc[c] = "idle" /\ call[c].from = "cache")

\* C1: a check on a checker built with bypass_cache = false that finds an
\* entry for its exact key with now - timestamp < 3600 returns that entry's
\* outcome, present or absent, and makes no registry query.
C1_FreshHit ==
    \A c \in Checkers :
        (Called(c) /\ ~ bypass[c]) =>
            /\ (PriorInPast(c) /\ PriorAge(c) < 3600) => ServedFromCache(c)
            /\ NotYetInserted(c) =>
                 LET key == call[c].key
                 IN  /\ call[c].prior.found <=> key \in DOMAIN cache[c]
                     /\ key \in DOMAIN cache[c] =>
                          /\ call[c].prior = FoundEntry(cache[c][key])
                          /\ (cache[c][key].timestamp <= call[c].now
                                /\ call[c].now - cache[c][key].timestamp < 3600)
                               => /\ ServedFromCache(c)
                                  /\ call[c].result = cache[c][key].result

\* a second check of a key, a second after the check that stored a present
\* outcome, was answered from the cache
C1_Witness ==
    \E c \in Checkers :
        /\ ~ bypass[c] /\ Called(c) /\ PriorInPast(c) /\ PriorAge(c) = 1
        /\ call[c].prior.result.some
        /\ ServedFromCache(c)

\* C2: an entry of age 3600 or more is treated as absent: its outcome is
\* not served and the registry is queried, while the entry stays in the map
\* until the check overwrites it; an entry of age 3599 is served.
C2_Expiry ==
    \A c \in Checkers :
        (Called(c) /\ ~ bypass[c] /\ PriorInPast(c)) =>
            /\ PriorAge(c) >= 3600 =>
                 /\ call[c].from \in { "none", "registry" }
                 /\ ReachedRegistry(c)
                 /\ pc[c] \in { "query", "insert" } =>
                      /\ call[c].key \in DOMAIN cache[c]
                      /\ FoundEntry(cache[c][call[c].key]) = call[c].prior
            /\ PriorAge(c) = 3599 => ServedFromCache(c)

\* a check found an entry of age exactly 3600 holding an outcome and waits
\* for the registry, the entry still in the map
C2_Witness ==
    \E c \in Checkers :
        /\ ~ bypass[c] /\ Called(c) /\ PriorInPast(c) /\ PriorAge(c) = 3600
        /\ call[c].prior.result.some
        /\ pc[c] = "query"
        /\ call[c].key \in DOMAIN cache[c]

\* C6: a checker built with bypass_cache = true queries the registry on
\* every check, a fresh entry for the key notwithstanding, returns the
\* outcome of that query, stores it in the map and, when the file write
\* succeeds, in the file.
C6_Bypass ==
    \A c \in Checkers :
        (Called(c) /\ bypass[c]) =>
            /\ call[c].from \in { "none", "registry" }
            /\ ReachedRegistry(c)
            /\ pc[c] = "idle" =>
                 /\ call[c].from = "registry"
                 /\ call[c].result =
                        check_result(call[c].key[1], call[c].key[2], call[c].resp)
                 /\ call[c].key \in DOMAIN cache[c]
                 /\ cache[c][call[c].key] =
                        [ timestamp |-> call[c].now, result |-> call[c].result ]
                 /\ call[c].write = "ok" =>
                      /\ file.kind = "data"
                      /\ call[c].key \in DOMAIN file.data
                      /\ file.data[call[c].key] =
                             [ timestamp |-> call[c].now,
                               result |-> ser_result(call[c].result) ]

\* a bypassing checker found a fresh entry with an outcome, queried all the
\* same, returned the absent outcome of the query and wrote it to the file
C6_Witness ==
    \E c \in Checkers :
        /\ bypass[c] /\ Called(c) /\ PriorInPast(c) /\ PriorAge(c) < 3600
        /\ call[c].prior.result.some
        /\ pc[c] = "idle" /\ call[c].from = "registry"
        /\ ~ call[c].result.some
        /\ call[c].write = "ok"

\* C7: no check fails: every check completes by returning an optional
\* outcome, also when the entry it finds carries a timestamp greater than
\* the clock reading.
C7_NeverFails == \A c \in Checkers : pc[c] # "panicked"

\* the outcomes of the map m with every release_date cut to whole seconds
WholeSeconds(m) ==
    [ k \in DOMAIN m |->
        [ timestamp |-> m[k].timestamp,
          result |-> [ m[k].result EXCEPT !.release_date.nanos = 0 ] ] ]

\* checker c has just returned from a check that stored its outcome and
\* wrote the file: the file holds the map of c
JustPersisted(c) ==
    pc[c] = "idle" /\ call[c].from = "registry" /\ call[c].write = "ok"

\* C8 as stated: a checker constructed right after a successful persist,
\* its read of the file succeeding, starts with the very map that was
\* persisted.
C8_RoundTripExact ==
    [][ \A c \in Checkers :
          (JustPersisted(c) /\ \E b \in BOOLEAN : New(c, b, TRUE))
              => cache'[c] = cache[c] ]_vars

\* C8 amended: it starts with the keys and the timestamps of the persisted
\* map, and with its outcomes but for release_date, which comes back cut to
\* whole seconds.
C8_RoundTrip ==
    [][ \A c \in Checkers :
          (JustPersisted(c) /\ \E b \in BOOLEAN : New(c, b, TRUE))
              => cache'[c] = WholeSeconds(cache[c]) ]_vars

\* a checker just constructed holds the decoded file, with an outcome
\* stored at an earlier clock reading
C8_Witness ==
    \E c \in Checkers :
        /\ pc[c] = "idle" /\ call[c] = NoCall
        /\ file.kind = "data" /\ cache[c] = from_bytes(file.data)
        /\ \E k \in DOMAIN cache[c] :
              cache[c][k].result.some /\ cache[c][k].timestamp < clock

(***************************************************************************)
(* Properties of the resolver (SpecResolve).                               *)
(***************************************************************************)
\* every character of v is an ASCII digit or '.'
OnlyDigitsAndDots(v) == \A i \in 1..Len(v) : v[i] \in Digits \cup { "." }

\* the registry answered the check of c with a version list
Answered(c) == Called(c) /\ call[c].resp.kind = "ok"

\* the positions of vs that are not yanked
NotYanked(vs) == { i \in 1..Len(vs) : ~ vs[i].yanked }

\* the positions of vs a check of the running version run may select
Eligible(vs, run) ==
    { i \in NotYanked(vs) : ~ OnlyDigitsAndDots(run) \/ OnlyDigitsAndDots(vs[i].num) }

\* the keys of the versions of SpecResolve
KeyOf == [ v \in ResolveRunning \cup RegistryVersions |-> parse_version(v) ]

\* the positions in S with the greatest key
Greatest(vs, S) ==
    { i \in S : \A j \in S : ~ VecLess(KeyOf[vs[i].num], KeyOf[vs[j].num]) }

\* the version at position i is strictly newer than run
Newer(vs, i, run) == VecLess(KeyOf[run], KeyOf[vs[i].num])

\* C3: when the registry query errors, times out, answers a non-success
\* status or an undecodable body, or lists no version that is not yanked,
\* the check goes on to return the absent outcome, for every package and
\* running version; it does not fail.
C3_FailOpen ==
    \A c \in Checkers :
        (Called(c) /\ call[c].resp # NoResp
           /\ (call[c].resp.kind # "ok" \/ NotYanked(call[c].resp.versions) = {}))
            => /\ call[c].result = None
               /\ pc[c] \in { "insert", "save", "idle" }
               /\ call[c].from \in { "none", "registry" }

\* a check of 1.0.0 returned nothing from a list holding only a yanked 1.2.0
C3_Witness ==
    \E c \in Checkers :
        /\ Called(c) /\ pc[c] = "idle" /\ call[c].from = "registry"
        /\ call[c].key[2] = V_1_0_0
        /\ call[c].resp = Ok(<< Info(V_1_2_0, TRUE) >>)
        /\ call[c].result = None

\* C4: when the registry answers, the check has an outcome iff the greatest
\* eligible version is strictly newer than the running version; the outcome
\* carries that version, the running version and the package name.
C4_OutcomeExact ==
    \A c \in Checkers :
        Answered(c) =>
            LET vs  == call[c].resp.versions
                run == call[c].key[2]
                G   == Greatest(vs, Eligible(vs, run))
            IN  /\ call[c].result.some <=> \E i \in G : Newer(vs, i, run)
                /\ call[c].result.some =>
                     /\ \E i \in G : call[c].result.available_version = vs[i].num
                     /\ call[c].result.running_version = run
                     /\ call[c].result.crate_name = call[c].key[1]

\* running 1.0.0 with the registry listing 1.0.0 and 1.2.0: 1.2.0 returned
C4_Witness ==
    \E c \in Checkers :
        /\ Called(c) /\ pc[c] = "idle" /\ call[c].from = "registry"
        /\ call[c].key[2] = V_1_0_0
        /\ call[c].resp = Ok(<< Info(V_1_0_0, FALSE), Info(V_1_2_0, FALSE) >>)
        /\ call[c].result.some
        /\ call[c].result.available_version = V_1_2_0

\* C5: a running standard release is only ever offered a standard release,
\* and nothing when every newer version that is not yanked is a
\* pre-release; a running pre-release is offered the greatest version that
\* is not yanked, if newer; a yanked version is never offered.
C5_PrereleasePolicy ==
    \A c \in Checkers :
        Answered(c) =>
            LET vs  == call[c].resp.versions
                run == call[c].key[2]
                res == call[c].result
                NY  == NotYanked(vs)
            IN  /\ (OnlyDigitsAndDots(run) /\ res.some)
                     => OnlyDigitsAndDots(res.available_version)
                /\ (OnlyDigitsAndDots(run)
                      /\ \A i \in NY : Newer(vs, i, run) => ~ OnlyDigitsAndDots(vs[i].num))
                     => res = None
                /\ ~ OnlyDigitsAndDots(run) =>
                     /\ res.some <=> \E i \in Greatest(vs, NY) : Newer(vs, i, run)
                     /\ res.some =>
                          \E i \in Greatest(vs, NY) : res.available_version = vs[i].num
                /\ res.some => \E i \in NY : res.available_version = vs[i].num

\* running 1.0.0-alpha.1 with the registry listing 1.0.0, 1.0.0-alpha.2 and
\* 0.9.0: 1.0.0 returned
C5_Witness ==
    \E c \in Checkers :
        /\ Called(c) /\ pc[c] = "idle" /\ call[c].from = "registry"
        /\ call[c].key[2] = V_1_0_0_alpha_1
        /\ call[c].resp = Ok(<< Info(V_1_0_0, FALSE), Info(V_1_0_0_alpha_2, FALSE),
                               Info(V_0_9_0, FALSE) >>)
        /\ call[c].result.some
        /\ call[c].result.available_version = V_1_0_0

(***************************************************************************)
(* Properties of the version key (SpecKey).                                *)
(***************************************************************************)
\* the position of the first '-' of s, Len(s) + 1 when there is none
RECURSIVE FirstDash(_, _)
FirstDash(s, i) ==
    IF i > Len(s) \/ s[i] = "-" THEN i ELSE FirstDash(s, i + 1)

\* the numeric prefix of s and what follows it
PrefixOf(s) == SubSeq(s, 1, FirstDash(s, 1) - 1)

SuffixOf(s) == SubSeq(s, FirstDash(s, 1), Len(s))

\* the value of a run of digits
RECURSIVE NumVal(_)
NumVal(ds) ==
    IF ds = << >> THEN 0
    ELSE 10 * NumVal(SubSeq(ds, 1, Len(ds) - 1)) + (Ord[ds[Len(ds)]] - Ord["0"])

\* the place of a suffix in the chain dev < alpha < beta < rc < release,
\* 0 for any other suffix
ChainRank(sfx) ==
    CASE sfx = << "-" >> \o T_dev   -> 1
      [] sfx = << "-" >> \o T_alpha -> 2
      [] sfx = << "-" >> \o T_beta  -> 3
      [] sfx = << "-" >> \o T_rc    -> 4
      [] sfx = << >>                -> 5
      [] OTHER                      -> 0

\* sfx is -rcN for a number N
IsNumberedRc(sfx) ==
    /\ Len(sfx) > 3
    /\ SubSeq(sfx, 1, 3) = << "-" >> \o T_rc
    /\ \A i \in 4..Len(sfx) : sfx[i] \in Digits

RcNumber(sfx) == SubSeq(sfx, 4, Len(sfx))

\* the two strings of the probe have the same numeric prefix, X
SamePrefix == PrefixOf(probe.a) = PrefixOf(probe.b) /\ PrefixOf(probe.a) \in Prefixes

\* key(X-dev) < key(X-alpha) < key(X-beta) < key(X-rc) < key(X)
ChainOrdered ==
    LET ra == ChainRank(SuffixOf(probe.a))
        rb == ChainRank(SuffixOf(probe.b))
    IN  (ra > 0 /\ rb > 0 /\ ra < rb) => VecLess(probe.ka, probe.kb)

\* C9 as stated: the chain, and key(X-rcN) < key(X-rcM) whenever N < M.
C9_ChainAnyNumber ==
    (probe.done /\ SamePrefix) =>
        /\ ChainOrdered
        /\ LET sa == SuffixOf(probe.a)
               sb == SuffixOf(probe.b)
           IN  (IsNumberedRc(sa) /\ IsNumberedRc(sb)
                  /\ NumVal(RcNumber(sa)) < NumVal(RcNumber(sb)))
                   => VecLess(probe.ka, probe.kb)

\* C9 amended: the chain, and key(X-rcN) < key(X-rcM) whenever N < M and
\* neither number has more than 8 digits.
C9_Chain ==
    (probe.done /\ SamePrefix) =>
        /\ ChainOrdered
        /\ LET sa == SuffixOf(probe.a)
               sb == SuffixOf(probe.b)
           IN  (IsNumberedRc(sa) /\ IsNumberedRc(sb)
                  /\ Len(RcNumber(sa)) <= 8 /\ Len(RcNumber(sb)) <= 8
                  /\ NumVal(RcNumber(sa)) < NumVal(RcNumber(sb)))
                   => VecLess(probe.ka, probe.kb)

\* X-rc2 and X-rc10 are parsed and the key of the first is the smaller
C9_Witness ==
    /\ probe.done /\ SamePrefix
    /\ SuffixOf(probe.a) = << "-" >> \o T_rc \o << "2" >>
    /\ SuffixOf(probe.b) = << "-" >> \o T_rc \o << "1", "0" >>
    /\ VecLess(probe.ka, probe.kb)

\* the values of the digit runs of a standard release, from position i on
RECURSIVE IntsFrom(_, _)
IntsFrom(s, i) ==
    IF i > Len(s) THEN << >>
    ELSE IF s[i] = "." THEN IntsFrom(s, i + 1)
    ELSE LET j == RunEnd(s, i, Digits)
         IN  << NumVal(SubSeq(s, i, j)) >> \o IntsFrom(s, j + 1)

\* a list of integers without its trailing zeros
RECURSIVE DropTrailingZeros(_)
DropTrailingZeros(ns) ==
    IF ns # << >> /\ ns[Len(ns)] = 0
      THEN DropTrailingZeros(SubSeq(ns, 1, Len(ns) - 1))
      ELSE ns

\* the component-wise order of integer lists, a proper prefix being smaller
RECURSIVE IntsLess(_, _, _)
IntsLess(a, b, i) ==
    IF i > Len(b) THEN FALSE
    ELSE IF i > Len(a) THEN TRUE
    ELSE IF a[i] # b[i] THEN a[i] < b[i]
    ELSE IntsLess(a, b, i + 1)

ReleaseInts(s) == DropTrailingZeros(IntsFrom(s, 1))

\* C10: on standard releases with components of at most 8 digits the key
\* order is the component-wise integer order of the component lists with
\* their trailing zeros dropped, and equal lists have equal keys.
C10_NumericOrder ==
    (probe.done /\ OnlyDigitsAndDots(probe.a) /\ OnlyDigitsAndDots(probe.b)) =>
        LET ia == ReleaseInts(probe.a)
            ib == ReleaseInts(probe.b)
        IN  /\ VecLess(probe.ka, probe.kb) <=> IntsLess(ia, ib, 1)
            /\ probe.ka = probe.kb <=> ia = ib

\* 2.0 and 2.0.0 are parsed and have the same key
C10_Witness ==
    /\ probe.done
    /\ probe.a = << "2", ".", "0" >>
    /\ probe.b = << "2", ".", "0", ".", "0" >>
    /\ probe.ka = probe.kb

\* the position of the first letter or '-' of s, Len(s) + 1 when none
RECURSIVE FirstTagChar(_, _)
FirstTagChar(s, i) ==
    IF i > Len(s) \/ s[i] \in UpperLetters \cup LowerLetters \cup { "-" } THEN i
    ELSE FirstTagChar(s, i + 1)

\* s contains a letter or a '-'
HasLetterOrDash(s) == FirstTagChar(s, 1) <= Len(s)

\* the standard release s corresponds to: what precedes its first letter
\* or '-'
ReleaseOf(s) == SubSeq(s, 1, FirstTagChar(s, 1) - 1)

\* C11: every version string that contains a letter or a '-' has a key
\* strictly smaller than the key of its corresponding standard release,
\* the numeric prefix before the first letter or '-'.
C11_PrereleasePrecedes ==
    (probe.done /\ HasLetterOrDash(probe.a) /\ probe.b = ReleaseOf(probe.a))
        => VecLess(probe.ka, probe.kb)

(***************************************************************************)
(* Properties of standard_release (SpecClass).                             *)
(***************************************************************************)
\* the characters of v that are neither an ASCII digit nor '.'
OtherChars(v) ==
    { v[i] : i \in 1..Len(v) } \ { "0", "1", "2", "3", "4", "5", "6", "7", "8", "9", "." }

\* C12: standard_release(v) is true if and only if every character of v is
\* an ASCII digit or '.': true for the empty string, false as soon as v
\* holds a letter, '-', '+' or any other character.
C12_StandardIff ==
    probe.classified =>
        /\ probe.std <=> OtherChars(probe.a) = {}
        /\ probe.a = << >> => probe.std
        /\ (\E i \in 1..Len(probe.a) : probe.a[i] \in { "a", "Z", "-", "+", "_" })
              => ~ probe.std

\* "0.9" was classified and is a standard release
C12_Witness ==
    /\ probe.classified
    /\ probe.a = << "0", ".", "9" >>
    /\ probe.std

(***************************************************************************)
(* Further properties of the version key (SpecKey).                        *)
(***************************************************************************)
\* C13: equivalent spellings have equal keys: upper and lower case, the
\* tags pre, preview and rc, and a '.' or none between a tag and its
\* number, for every numeric prefix X.
C13_Spellings ==
    (probe.done /\ SamePrefix) =>
        LET sa == SuffixOf(probe.a)
            sb == SuffixOf(probe.b)
        IN  /\ (sa \in RcOneSpellings /\ sb \in RcOneSpellings) => probe.ka = probe.kb
            /\ (sa \in RcBareSpellings /\ sb \in RcBareSpellings) => probe.ka = probe.kb

\* X-RC1 and X-preview.1 are parsed and have the same key, which is not
\* the key of X
C13_Witness ==
    /\ probe.done /\ SamePrefix
    /\ SuffixOf(probe.a) = << "-", "R", "C", "1" >>
    /\ SuffixOf(probe.b) = << "-", "P", "r", "e", "v", "i", "e", "w", ".", "1" >>
    /\ probe.ka = probe.kb
    /\ probe.ka # parse_version(PrefixOf(probe.a))

\* a token of a key is numeric when it starts with a digit, a tag otherwise
IsNumericToken(tok) == tok[1] \in Digits

IsTagToken(tok) == tok[1] \notin Digits

\* the positions both keys have
Shared(k1, k2) == { i \in 1..Len(k1) : i <= Len(k2) }

\* the positions at which k1 has a tag, k2 a number, and before which the
\* keys agree
TagMeetsNumber(k1, k2) ==
    { i \in Shared(k1, k2) :
        /\ IsTagToken(k1[i]) /\ IsNumericToken(k2[i])
        /\ SubSeq(k1, 1, i - 1) = SubSeq(k2, 1, i - 1) }

\* every tag of k1 other than *final is greater than the number k2 has at
\* its position, and k1 is the greater key when it continues with such a
\* tag where k2 continues with a number
TagsAfterNumbers(k1, k2) ==
    /\ \A i \in Shared(k1, k2) :
          (IsTagToken(k1[i]) /\ k1[i] # FinalToken /\ IsNumericToken(k2[i]))
              => StrLess(k2[i], k1[i])
    /\ \A i \in TagMeetsNumber(k1, k2) : k1[i] # FinalToken => VecLess(k2, k1)

\* every tag of k1, *final included, is smaller than the number k2 has at
\* its position, and k1 is the smaller key when it continues with a tag
\* where k2 continues with a number
TagsBeforeNumbers(k1, k2) ==
    /\ \A i \in Shared(k1, k2) :
          (IsTagToken(k1[i]) /\ IsNumericToken(k2[i])) => StrLess(k1[i], k2[i])
    /\ \A i \in TagMeetsNumber(k1, k2) : VecLess(k1, k2)

\* C18 as stated: a tagged token other than the terminal *final compares
\* greater than a padded numeric token at the same position, so a key
\* continuing with a tag is greater than one continuing with a number.
C18_TagsAfterNumbers ==
    probe.done =>
        TagsAfterNumbers(probe.ka, probe.kb) /\ TagsAfterNumbers(probe.kb, probe.ka)

\* C18 amended: every tagged token, *final included, compares smaller than
\* every numeric token at the same position, so for equal leading
\* components a key continuing with a tag is smaller than one continuing
\* with a number.
C18_TagsBeforeNumbers ==
    probe.done =>
        TagsBeforeNumbers(probe.ka, probe.kb) /\ TagsBeforeNumbers(probe.kb, probe.ka)

\* 2-rc and 2.2 are parsed: the keys agree on 00000002, then *c meets
\* 00000002 and the key of 2-rc is the smaller
C18_Witness ==
    /\ probe.done
    /\ probe.a = << "2", "-", "r", "c" >>
    /\ probe.b = << "2", ".", "2" >>
    /\ TagMeetsNumber(probe.ka, probe.kb) = { 2 }
    /\ probe.ka[2] = << "*", "c" >>
    /\ VecLess(probe.ka, probe.kb)

\* C19: for standard releases X and Y with key(Y) < key(X) and a tag t
\* among dev, alpha, beta, rc, pre, preview, bare or numbered,
\* key(Y) < key(X-t) < key(X).
C19_Between ==
    probe.done =>
        /\ (OnlyDigitsAndDots(probe.a) /\ SuffixOf(probe.b) \in TagSuffixes
               /\ VecLess(parse_version(probe.a), parse_version(PrefixOf(probe.b))))
              => VecLess(probe.ka, probe.kb)
        /\ (SuffixOf(probe.a) \in TagSuffixes /\ probe.b = PrefixOf(probe.a))
              => VecLess(probe.ka, probe.kb)

\* 2 and 2.2-dev are parsed: key(2) < key(2.2-dev) < key(2.2)
C19_Witness ==
    /\ probe.done
    /\ probe.a = << "2" >>
    /\ probe.b = << "2", ".", "2", "-", "d", "e", "v" >>
    /\ VecLess(probe.ka, probe.kb)
    /\ VecLess(probe.kb, parse_version(<< "2", ".", "2" >>))

(***************************************************************************)
(* Further properties of the cache (Spec).                                 *)
(***************************************************************************)
\* the check of c has returned
Returned(c) == Called(c) /\ pc[c] = "idle" /\ call[c].from \in { "cache", "registry" }

\* the check of c has stored its outcome and returned
Stored(c) == Returned(c) /\ call[c].from = "registry"

\* the entry the check of c leaves under its key when it overwrites
OwnEntry(c) == [ timestamp |-> call[c].now, result |-> call[c].result ]

\* the map of c holds e under the key of its check
Holds(c, e) == call[c].key \in DOMAIN cache[c] /\ cache[c][call[c].key] = e

\* C14 as stated: every check of a key that already has an entry replaces
\* the entry by one with the time and the outcome of this check, a check
\* answered from a fresh entry included.
C14_EveryCheckOverwrites ==
    \A c \in Checkers :
        (Returned(c) /\ call[c].prior.found) => Holds(c, OwnEntry(c))

\* C14 amended: a check that queries the registry replaces the entry by one
\* with the time and the outcome of this check, on a bypassing checker or
\* not; a check answered from a fresh entry leaves the entry as it found
\* it, timestamp included.
C14_Overwrite ==
    \A c \in Checkers :
        (Returned(c) /\ call[c].prior.found) =>
            /\ call[c].from = "registry" => Holds(c, OwnEntry(c))
            /\ call[c].from = "cache" =>
                 Holds(c, [ timestamp |-> call[c].prior.timestamp,
                            result |-> call[c].prior.result ])

\* a check found an entry of age 3600 with an outcome, queried, got the
\* absent outcome and left it under the key with its own clock reading
C14_Witness ==
    \E c \in Checkers :
        /\ Returned(c) /\ ~ bypass[c] /\ call[c].from = "registry"
        /\ PriorInPast(c) /\ PriorAge(c) = 3600
        /\ call[c].prior.result.some /\ ~ call[c].result.some
        /\ Holds(c, OwnEntry(c))

\* checker c begins a check of the key of the check it has returned from
BeginsSameKey(c) ==
    /\ pc[c] = "idle"
    /\ call'[c] # call[c]
    /\ call'[c].key = call[c].key

\* the clock reads less than 3600 seconds after the check of c started
Within(c) == clock >= call[c].now /\ clock - call[c].now < 3600

\* the step is a construction of checker c, its read of the file
\* succeeding (read_ok) or not
ConstructsReading(c, read_ok) ==
    /\ pc'[c] = "idle"
    /\ call'[c] = NoCall
    /\ clock' = clock /\ nchecks' = nchecks
    /\ New(c, bypass'[c], read_ok)

\* the step is a construction of checker c
Constructs(c) == ConstructsReading(c, TRUE) \/ ConstructsReading(c, FALSE)

\* C17: a checker constructed when the file is missing, unreadable or
\* undecodable starts with the empty map, and construction completes; when
\* the write of the file fails the check returns the outcome of its query
\* and the entry is in the map, so that the next check of the key on this
\* checker within 3600 seconds is answered from it.
C17_FileFailuresAbsorbed ==
    [][ \A c \in Checkers :
          /\ (pc[c] = "none" /\ pc'[c] # "none") => pc'[c] = "idle"
          /\ (Constructs(c) /\ file.kind # "data") => cache'[c] = EmptyMap
          /\ ConstructsReading(c, FALSE) => cache'[c] = EmptyMap
          /\ (pc[c] = "save" /\ pc'[c] = "idle" /\ call'[c].write # "ok") =>
                /\ call'[c].from = "registry"
                /\ call'[c].result =
                       check_result(call[c].key[1], call[c].key[2], call[c].resp)
                /\ call[c].key \in DOMAIN cache'[c]
                /\ cache'[c][call[c].key] =
                       [ timestamp |-> call[c].now, result |-> call'[c].result ]
          /\ (Stored(c) /\ call[c].write # "ok"
                 /\ BeginsSameKey(c) /\ ~ bypass[c] /\ Within(c)) =>
                /\ pc'[c] = "idle"
                /\ call'[c].from = "cache"
                /\ call'[c].resp = NoResp
                /\ call'[c].result = call[c].result ]_vars

\* no file was ever written, and a check was answered with the outcome an
\* earlier check left in the map
C17_Witness ==
    \E c \in Checkers :
        /\ file = FileMissing
        /\ ~ bypass[c] /\ ServedFromCache(c)
        /\ call[c].prior.result.some
        /\ PriorInPast(c) /\ PriorAge(c) < 3600

\* the registry query of the check of c failed
QueryFailed(c) == call[c].resp.kind \in { "send", "status", "json" }

\* C20: a check whose registry query failed returns nothing and leaves the
\* absent outcome under the key with its clock reading; the next check of
\* the key, not bypassing, within 3600 seconds returns nothing and makes no
\* registry query.
C20_FailureCached ==
    [][ \A c \in Checkers :
          (Returned(c) /\ call[c].from = "registry" /\ QueryFailed(c)) =>
              /\ call[c].result = None
              /\ Holds(c, [ timestamp |-> call[c].now, result |-> None ])
              /\ (BeginsSameKey(c) /\ ~ bypass[c] /\ Within(c)) =>
                    /\ pc'[c] = "idle"
                    /\ call'[c].from = "cache"
                    /\ call'[c].resp = NoResp
                    /\ call'[c].result = None ]_vars

\* a check was answered with the absent outcome of an entry a second old,
\* the registry never reached by this check
C20_Witness ==
    \E c \in Checkers :
        /\ ~ bypass[c] /\ ServedFromCache(c)
        /\ call[c].prior.found /\ call[c].prior.result = None
        /\ PriorInPast(c) /\ PriorAge(c) = 1
        /\ call[c].result = None

(***************************************************************************)
(* Properties of the shared cache file (SpecShared).                       *)
(***************************************************************************)
\* the keys the file holds
KeysOf(f) == IF f.kind = "data" THEN DOMAIN f.data ELSE {}

\* C15 as stated: the key set of the file only grows, and the key of every
\* check that stored an outcome, on whatever checker, is in the file.
C15_FileNeverLosesKey ==
    [][ /\ KeysOf(file) \subseteq KeysOf(file')
        /\ \A c \in Checkers : Stored(c) => call[c].key \in KeysOf(file) ]_vars

\* C15 amended: the key set of a checker's map only grows, from the keys of
\* the file at its construction; a persist leaves in the file exactly the
\* keys of the persisting checker's map, the key just checked among them.
C15_WriterKeysKept ==
    [][ \A c \in Checkers :
          /\ New(c, FALSE, TRUE) => DOMAIN cache'[c] = KeysOf(file)
          /\ pc[c] # "none" => DOMAIN cache[c] \subseteq DOMAIN cache'[c]
          /\ CheckSave(c, "ok") =>
                /\ KeysOf(file') = DOMAIN cache[c]
                /\ call[c].key \in KeysOf(file') ]_vars

\* two checkers have each stored an outcome, under different keys, and the
\* file holds the keys of the one and not the key of the other
C15_Witness ==
    \E c \in Checkers, d \in Checkers :
        /\ Stored(c) /\ Stored(d)
        /\ call[c].key # call[d].key
        /\ KeysOf(file) = DOMAIN cache[d]
        /\ call[c].key \notin KeysOf(file)

(***************************************************************************)
(* Properties of the threads of one checker (SpecThreads).                 *)
(***************************************************************************)
\* the positions of a thread under a guard of the Mutex
UnderGuard == { "locked_lookup", "locked_insert", "locked_save" }

\* thread t waits for the registry
AwaitsRegistry(t) == tpc[t] = "query" /\ tcall[t].resp = NoResp

\* the map holds a fresh entry under the key of the check of thread t
FreshEntry(t) ==
    /\ tcall[t].key \in DOMAIN cache[TheChecker]
    /\ entry_fresh(tcall[t].now, cache[TheChecker][tcall[t].key].timestamp)

\* C16: the Mutex is held only inside the lookup, the insert and the
\* persist, never by a thread that waits for the registry; a thread that
\* wants the Mutex for its lookup gets it whenever no thread is inside one
\* of those three blocks, other threads waiting for the registry or not,
\* and, its key having a fresh entry, then returns the cached outcome.
C16_LockNotHeldAcrossRequest ==
    \A t \in Threads :
        /\ lock.holder = t <=> tpc[t] \in UnderGuard
        /\ AwaitsRegistry(t) => lock.holder # t
        /\ (tpc[t] = "lookup" /\ \A u \in Threads : tpc[u] \notin UnderGuard)
              => ENABLED TLookupLock(t)
        /\ (tpc[t] = "locked_lookup" /\ FreshEntry(t))
              => ENABLED (/\ TLookup(t, FALSE)
                          /\ tpc'[t] = "idle"
                          /\ tcall'[t].from = "cache"
                          /\ tcall'[t].result = cache[TheChecker][tcall[t].key].result)

\* thread 1 waits for the registry and thread 2 has the Mutex for its
\* lookup, its key having a fresh entry with an outcome
C16_Witness ==
    /\ AwaitsRegistry(1)
    /\ lock.holder = 2 /\ tpc[2] = "locked_lookup"
    /\ FreshEntry(2)
    /\ cache[TheChecker][tcall[2].key].result.some

(***************************************************************************)
(* Where the cached answers come from (SpecShared, with the history of     *)
(* the registry queries).                                                  *)
(***************************************************************************)
\* the outcome r after a write to the cache file and a read back
Persisted(r) == de_result(ser_result(r))

\* the entry the check of the query q inserts
EntryOf(q) == [ timestamp |-> q.started, result |-> q.result ]

\* that entry as another checker reads it from the file
EntryReadBack(q) == [ timestamp |-> q.started, result |-> Persisted(q.result) ]

\* e, held under the key k, is the entry of a registry query made for k,
\* as it was inserted or as it was read back from the file
FromQuery(k, e) ==
    \E q \in asked : q.key = k /\ e \in { EntryOf(q), EntryReadBack(q) }

\* the check of c started less than CACHE_EXPIRE_TIME seconds after the
\* check that made the query q, and not before it
StartedWithinWindow(c, q) ==
    /\ q.started <= call[c].now
    /\ call[c].now - q.started < CACHE_EXPIRE_TIME

\* C21 as stated: every outcome a check returns from the cache is the
\* outcome of a registry query made for the same key by a check that
\* started less than 3600 seconds earlier.
C21_HitIsQueryOutcome ==
    \A c \in Checkers :
        ServedFromCache(c) =>
            \E q \in asked : /\ q.key = call[c].key
                             /\ q.result = call[c].result
                             /\ StartedWithinWindow(c, q)

\* C21, amended: every entry of every map and of the file is the entry of
\* a registry query made for its key, stamped with the clock reading of
\* the check that made the query, its outcome as the query gave it or,
\* once it has passed through the file, with the release date cut to whole
\* seconds; and every outcome a check returns from the cache is that of
\* such an entry whose check started less than 3600 seconds earlier.
C21_HitIsStoredQueryOutcome ==
    /\ \A c \in Checkers : \A k \in DOMAIN cache[c] : FromQuery(k, cache[c][k])
    /\ file.kind = "data" =>
          \A k \in DOMAIN file.data : FromQuery(k, from_bytes(file.data)[k])
    /\ \A c \in Checkers :
          ServedFromCache(c) =>
              \E q \in asked :
                  /\ q.key = call[c].key
                  /\ call[c].prior \in { FoundEntry(EntryOf(q)),
                                         FoundEntry(EntryReadBack(q)) }
                  /\ call[c].result = call[c].prior.result
                  /\ StartedWithinWindow(c, q)

\* checker 2 returned from the cache, one second after the check of
\* checker 1 that made the query, the outcome checker 1 persisted: an
\* update whose release date has lost its sub-second part
C21_Witness ==
    /\ ServedFromCache(2)
    /\ call[2].result.some
    /\ call[2].now = call[2].prior.timestamp + 1
    /\ call[1].key = call[2].key /\ Stored(1)
    /\ Query(call[1].key, call[1].now, call[1].result) \in asked
    /\ call[1].now = call[2].prior.timestamp
    /\ call[2].result # call[1].result
    /\ call[2].result = Persisted(call[1].result)

(***************************************************************************)
(* What the threads of one checker leave on disk (SpecThreads).            *)
(***************************************************************************)
\* no thread is inside check: each has returned, has not called, or has
\* unwound
NoCheckRunning == \A t \in Threads : tpc[t] \in { "idle", "panicked" }

\* the check of thread t went to the registry and returned
TStored(t) == tpc[t] = "idle" /\ tcall[t].from = "registry"

\* the checks on record are all the checks of the run: no thread has
\* called twice
OneCheckEach == nchecks = Cardinality({ t \in Threads : tcall[t] # NoCall })

\* no fs::write of the run failed
NoWriteFailed == \A t \in Threads : tcall[t].write \notin { "unopened", "truncated" }

\* C22 as stated: once the checks of the threads that share the checker
\* have all ended, no write of the file having failed, the file is the
\* in-memory map and holds an entry under the key of every check that went
\* to the registry and returned.
C22_NothingLostOnDisk ==
    ( /\ pc[TheChecker] = "idle"
      /\ NoCheckRunning /\ OneCheckEach /\ NoWriteFailed
      /\ \E t \in Threads : TStored(t) )
    => /\ file = FileData(to_allocvec(cache[TheChecker]))
       /\ \A t \in Threads : TStored(t) => tcall[t].key \in KeysOf(file)

=============================================================================
